---- MODULE Spec2Model ----
(***************************************************************************)
(* A model of analyze_texts.py: the TextAnalyzer methods as operators and  *)
(* main() as a state machine.                                              *)
(*                                                                         *)
(* Representation.  A character is a one-character string.  A string of    *)
(* the program (a title, a word, a line) is a sequence of characters.  A   *)
(* text (the content of a file) is a sequence of chunks, each chunk a      *)
(* string without line breaks; the chunk NL is a line break, and two       *)
(* neighbouring chunks that are not line breaks are separated by a single  *)
(* space.  The regular expressions of strip_gutenberg_metadata are matched *)
(* on chunks, everything else is computed on characters.                   *)
(***************************************************************************)
EXTENDS Integers, Sequences, FiniteSets, TLC

VARIABLES
  pc,           \* position of main(), or of the function under test
  fs_inputs,    \* the pg*.txt files of the directory, in filename order
  fs_output,    \* analysis_data.json on disk
  fs_output0,   \* analysis_data.json as it was before the run
  text_files,   \* main: text_files
  analyses,     \* main: analyses
  comparisons,  \* main / compare_texts: comparisons
  cmp_i,        \* compare_texts: i
  cmp_j,        \* compare_texts: j
  del_i,        \* main: position of the loop that deletes all_words
  output_data,  \* main: output_data
  fin,          \* arguments of the function under test
  fout          \* its return value

vars == <<pc, fs_inputs, fs_output, fs_output0, text_files, analyses,
          comparisons, cmp_i, cmp_j, del_i, output_data, fin, fout>>

mainVars == <<fs_inputs, fs_output, fs_output0, text_files, analyses,
              comparisons, cmp_i, cmp_j, del_i, output_data>>

None == "None"

----------------------------------------------------------------------------
(* Characters and strings *)

UpperCase == <<"A","B","C","D","E","F","G","H","I","J","K","L","M","N","O","P","Q","R","S","T","U","V","W","X","Y","Z">>
LowerCase == <<"a","b","c","d","e","f","g","h","i","j","k","l","m","n","o","p","q","r","s","t","u","v","w","x","y","z">>
Digits == {"0","1","2","3","4","5","6","7","8","9"}

Range(s) == {s[k] : k \in DOMAIN s}

IndexOf(c, s) == CHOOSE k \in DOMAIN s : s[k] = c

\* str.isalpha on one character
IsAlphaChar(c) == c \in Range(UpperCase) \cup Range(LowerCase)

IsAlnumChar(c) == IsAlphaChar(c) \/ c \in Digits

\* whitespace, as \s and str.strip see it
IsSpaceChar(c) == c \in {" ", "\n", "\t", "\r"}

\* str.lower on one character
LowerChar(c) == IF c \in Range(UpperCase) THEN LowerCase[IndexOf(c, UpperCase)] ELSE c

\* str.lower
Lower(s) == [k \in DOMAIN s |-> LowerChar(s[k])]

\* str.isalpha: non-empty and every character alphabetic
IsAlpha(s) == s # <<>> /\ \A k \in DOMAIN s : IsAlphaChar(s[k])

\* the code point order on the characters the model uses: lower case letters
\* in alphabetical order, every other character before them
Ord(c) == IF c \in Range(LowerCase) THEN IndexOf(c, LowerCase) ELSE 0

\* Python's < on str: lexicographic by code point, a proper prefix first
RECURSIVE StrLess(_, _)
StrLess(a, b) ==
  IF b = <<>> THEN FALSE
  ELSE IF a = <<>> THEN TRUE
  ELSE IF Ord(Head(a)) # Ord(Head(b)) THEN Ord(Head(a)) < Ord(Head(b))
  ELSE StrLess(Tail(a), Tail(b))

\* str.startswith
StartsWith(s, prefix) ==
  Len(s) >= Len(prefix) /\ SubSeq(s, 1, Len(prefix)) = prefix

\* str.replace(old, ''): the non-overlapping occurrences of old, left to right
RECURSIVE Remove(_, _)
Remove(s, old) ==
  IF s = <<>> THEN <<>>
  ELSE IF StartsWith(s, old) THEN Remove(SubSeq(s, Len(old) + 1, Len(s)), old)
  ELSE <<Head(s)>> \o Remove(Tail(s), old)

RECURSIVE LStrip(_)
LStrip(s) == IF s # <<>> /\ IsSpaceChar(Head(s)) THEN LStrip(Tail(s)) ELSE s

RECURSIVE RStrip(_)
RStrip(s) ==
  IF s # <<>> /\ IsSpaceChar(s[Len(s)]) THEN RStrip(SubSeq(s, 1, Len(s) - 1)) ELSE s

\* str.strip
Strip(s) == RStrip(LStrip(s))

----------------------------------------------------------------------------
(* Texts as sequences of chunks *)

NL == <<"\n">>
Stars == <<"*","*","*">>
StartThis == <<"S","T","A","R","T"," ","O","F"," ","T","H","I","S"," ","P","R","O","J","E","C","T"," ","G","U","T","E","N","B","E","R","G"," ","E","B","O","O","K">>
StartThe == <<"S","T","A","R","T"," ","O","F"," ","T","H","E"," ","P","R","O","J","E","C","T"," ","G","U","T","E","N","B","E","R","G"," ","E","B","O","O","K">>
EndThis == <<"E","N","D"," ","O","F"," ","T","H","I","S"," ","P","R","O","J","E","C","T"," ","G","U","T","E","N","B","E","R","G"," ","E","B","O","O","K">>
EndThe == <<"E","N","D"," ","O","F"," ","T","H","E"," ","P","R","O","J","E","C","T"," ","G","U","T","E","N","B","E","R","G"," ","E","B","O","O","K">>

\* the characters of a line: its chunks joined by single spaces
RECURSIVE LineChars(_)
LineChars(line) ==
  IF line = <<>> THEN <<>>
  ELSE IF Len(line) = 1 THEN line[1]
  ELSE line[1] \o <<" ">> \o LineChars(Tail(line))

\* str.split('\n'): the lines of a text, each a sequence of chunks
RECURSIVE SplitLines(_)
SplitLines(text) ==
  IF \A k \in DOMAIN text : text[k] # NL THEN <<text>>
  ELSE LET p == CHOOSE k \in DOMAIN text :
                  text[k] = NL /\ \A m \in 1..(k - 1) : text[m] # NL
       IN <<SubSeq(text, 1, p - 1)>> \o SplitLines(SubSeq(text, p + 1, Len(text)))

----------------------------------------------------------------------------
(* strip_gutenberg_metadata *)

\* the first closing *** after chunk k, for the lazy .*?\*\*\* of a pattern
ClosingStars(text, k) ==
  IF \E c \in (k + 1)..Len(text) : text[c] = Stars
  THEN CHOOSE c \in (k + 1)..Len(text) :
         text[c] = Stars /\ \A m \in (k + 1)..(c - 1) : text[m] # Stars
  ELSE 0

\* pattern 1 at chunk i: \*\*\* \s* <START|END> OF TH(IS|E) PROJECT GUTENBERG
\* EBOOK .*? \*\*\*  (DOTALL); the result is the chunk of the closing ***, or 0
MatchFlexible(text, i, phrases) ==
  IF text[i] # Stars THEN 0
  ELSE IF \E k \in (i + 1)..Len(text) : text[k] # NL
       THEN LET k == CHOOSE k \in (i + 1)..Len(text) :
                       text[k] # NL /\ \A m \in (i + 1)..(k - 1) : text[m] = NL
            IN IF text[k] \in phrases THEN ClosingStars(text, k) ELSE 0
       ELSE 0

\* pattern 2 at chunk i: \*\*\*, one space, <START|END> OF THIS PROJECT
\* GUTENBERG EBOOK .*? \*\*\*
MatchLiteral(text, i, phrase) ==
  IF text[i] = Stars /\ i + 1 <= Len(text) /\ text[i + 1] = phrase
  THEN ClosingStars(text, i + 1)
  ELSE 0

\* one pattern of the list at chunk i: index 1 is the flexible pattern,
\* index 2 the literal one
MatchAt(text, i, k, flexible, literal) ==
  IF k = 1 THEN MatchFlexible(text, i, flexible) ELSE MatchLiteral(text, i, literal)

NoMatch == <<0, 0>>

\* re.search: the leftmost chunk at which pattern k matches, as
\* <<match.start(), match.end()>> in chunks (chunks start..end are the match),
\* or NoMatch
Search(text, k, flexible, literal) ==
  IF \E i \in DOMAIN text : MatchAt(text, i, k, flexible, literal) # 0
  THEN LET i == CHOOSE i \in DOMAIN text :
                  /\ MatchAt(text, i, k, flexible, literal) # 0
                  /\ \A m \in 1..(i - 1) : MatchAt(text, m, k, flexible, literal) = 0
       IN <<i, MatchAt(text, i, k, flexible, literal)>>
  ELSE NoMatch

\* the loop over start_patterns / end_patterns: the first pattern that
\* matches, and break
SearchPatterns(text, flexible, literal) ==
  IF Search(text, 1, flexible, literal) # NoMatch
  THEN Search(text, 1, flexible, literal)
  ELSE Search(text, 2, flexible, literal)

\* text.strip() on chunks: leading and trailing line breaks go (the spaces
\* between chunks are implicit, so none leads or trails)
RECURSIVE StripText(_)
StripText(text) ==
  IF text # <<>> /\ text[1] = NL THEN StripText(Tail(text))
  ELSE IF text # <<>> /\ text[Len(text)] = NL
       THEN StripText(SubSeq(text, 1, Len(text) - 1))
       ELSE text

\* AfterStart that keeps the marker it found
AfterStartKeepingMarker(text) ==
  LET m == SearchPatterns(text, {StartThis, StartThe}, StartThis)
  IN IF m # NoMatch THEN SubSeq(text, m[1], Len(text)) ELSE text

AfterStart(text) ==
  LET m == SearchPatterns(text, {StartThis, StartThe}, StartThis)
  IN IF m # NoMatch THEN SubSeq(text, m[2] + 1, Len(text)) ELSE text

BeforeEnd(text) ==
  LET m == SearchPatterns(text, {EndThis, EndThe}, EndThis)
  IN IF m # NoMatch THEN SubSeq(text, 1, m[1] - 1) ELSE text

strip_gutenberg_metadata(text) == StripText(BeforeEnd(AfterStart(text)))

----------------------------------------------------------------------------
(* preprocess_text, get_words, get_sentences *)

\* re.sub(r'\s+', ' ', text): every run of whitespace becomes one space, which
\* on chunks removes the line breaks
CollapseWhitespace(text) == SelectSeq(text, LAMBDA c : c # NL)

preprocess_text(text) == CollapseWhitespace(strip_gutenberg_metadata(text))

\* the class of a character for the word tokenizer: a run of letters and
\* digits is one token, a run of other printable characters is one token
CharClass(c) == IF IsAlnumChar(c) THEN "alnum" ELSE "punct"

\* nltk.word_tokenize on the characters of one chunk; cur is the token being
\* read.  (The tokenizer is a library: this is its behaviour on words, numbers
\* and punctuation.)
RECURSIVE TokenizeChars(_, _)
TokenizeChars(s, cur) ==
  IF s = <<>> THEN (IF cur = <<>> THEN <<>> ELSE <<cur>>)
  ELSE IF IsSpaceChar(Head(s))
       THEN (IF cur = <<>> THEN <<>> ELSE <<cur>>) \o TokenizeChars(Tail(s), <<>>)
       ELSE IF cur = <<>> \/ CharClass(cur[1]) = CharClass(Head(s))
            THEN TokenizeChars(Tail(s), Append(cur, Head(s)))
            ELSE <<cur>> \o TokenizeChars(Tail(s), <<Head(s)>>)

\* word_tokenize(text.lower())
RECURSIVE word_tokenize_lower(_)
word_tokenize_lower(text) ==
  IF text = <<>> THEN <<>>
  ELSE TokenizeChars(Lower(Head(text)), <<>>) \o word_tokenize_lower(Tail(text))

\* stopwords.words('english'), the part of it the model's texts can contain
stop_words ==
  { <<"t","h","e">>, <<"o","f">>, <<"t","h","i","s">>, <<"a">>, <<"a","n","d">> }

get_words(text, remove_stopwords) ==
  LET words == SelectSeq(word_tokenize_lower(text), IsAlpha)
  IN IF remove_stopwords
     THEN SelectSeq(words, LAMBDA w : w \notin stop_words)
     ELSE words

\* whether a chunk ends a sentence
EndsSentence(chunk) == chunk # <<>> /\ chunk[Len(chunk)] \in {".", "!", "?"}

\* nltk.sent_tokenize: a sentence ends with a chunk that ends in '.', '!' or
\* '?'; what follows the last such chunk is a sentence too.  cur is the
\* sentence being read.  (A library: this is its behaviour on plain prose.)
RECURSIVE SentTokenize(_, _)
SentTokenize(text, cur) ==
  IF text = <<>> THEN (IF cur = <<>> THEN <<>> ELSE <<cur>>)
  ELSE IF EndsSentence(Head(text))
       THEN <<Append(cur, Head(text))>> \o SentTokenize(Tail(text), <<>>)
       ELSE SentTokenize(Tail(text), Append(cur, Head(text)))

get_sentences(text) == SentTokenize(text, <<>>)

----------------------------------------------------------------------------
(* build_bag_of_words, get_top_words *)

\* A dict is a sequence of <<key, value>> pairs with distinct keys, in
\* insertion order.
Keys(d) == {d[k][1] : k \in DOMAIN d}

\* Counter's counting of one more element
CountWord(d, w) ==
  IF w \in Keys(d)
  THEN [k \in DOMAIN d |-> IF d[k][1] = w THEN <<w, d[k][2] + 1>> ELSE d[k]]
  ELSE Append(d, <<w, 1>>)

RECURSIVE CounterOf(_, _)
CounterOf(words, d) ==
  IF words = <<>> THEN d ELSE CounterOf(Tail(words), CountWord(d, Head(words)))

\* dict(Counter(words))
build_bag_of_words(words) == CounterOf(words, <<>>)

\* InsertByCount with the ties the other way round: a later item of the same
\* count goes before the earlier ones
InsertByCountTiesFirst(sorted, e) ==
  LET before == Cardinality({k \in DOMAIN sorted : sorted[k][2] > e[2]})
  IN SubSeq(sorted, 1, before) \o <<e>> \o SubSeq(sorted, before + 1, Len(sorted))

\* the place of one more item in a list sorted by count, highest first: after
\* every item whose count is not lower (sorted(..., reverse=True) is stable)
InsertByCount(sorted, e) ==
  LET before == Cardinality({k \in DOMAIN sorted : sorted[k][2] >= e[2]})
  IN SubSeq(sorted, 1, before) \o <<e>> \o SubSeq(sorted, before + 1, Len(sorted))

RECURSIVE SortByCount(_, _)
SortByCount(items, sorted) ==
  IF items = <<>> THEN sorted
  ELSE SortByCount(Tail(items), InsertByCount(sorted, Head(items)))

Min(a, b) == IF a <= b THEN a ELSE b

\* Counter.most_common(n) = heapq.nlargest(n, items, key=count), which is
\* sorted(items, key=count, reverse=True)[:n]
most_common(d, n) == SubSeq(SortByCount(d, <<>>), 1, Min(n, Len(d)))

\* dict(Counter(bow).most_common(n))
get_top_words(bow, n) == most_common(bow, n)

----------------------------------------------------------------------------
(* calculate_style_metrics *)

\* A number is a fraction num/den with den > 0 (an int n is n/1); a division
\* by zero raises.
Frac(n, d) == [num |-> n, den |-> d]

ZeroDivisionError == [raised |-> "ZeroDivisionError"]

\* Python's a / b on ints
TrueDiv(a, b) == IF b = 0 THEN ZeroDivisionError ELSE Frac(a, b)

RECURSIVE Pow10(_)
Pow10(k) == IF k = 0 THEN 1 ELSE 10 * Pow10(k - 1)

\* round(x, ndigits) of a non-negative x, as the integer number of
\* 10^-ndigits units: to the nearest, a tie to the even one; a raised
\* exception stays raised
Round(x, ndigits) ==
  IF x = ZeroDivisionError THEN x
  ELSE LET scaled == x.num * Pow10(ndigits)
           q == scaled \div x.den
           r == scaled % x.den
       IN [units |-> IF 2 * r < x.den THEN q
                     ELSE IF 2 * r > x.den THEN q + 1
                     ELSE IF q % 2 = 0 THEN q ELSE q + 1,
           ndigits |-> ndigits]

RECURSIVE SumLen(_)
SumLen(words) == IF words = <<>> THEN 0 ELSE Len(Head(words)) + SumLen(Tail(words))

total_words_of(words) == Len(words)

unique_words_of(words) == Cardinality(Range(words))

\* vocab_richness = unique_words / total_words if total_words > 0 else 0
vocab_richness_of(words) ==
  IF total_words_of(words) > 0
  THEN TrueDiv(unique_words_of(words), total_words_of(words))
  ELSE Frac(0, 1)

\* avg_word_length = sum(len(word) for word in words) / total_words
\*                   if total_words > 0 else 0
avg_word_length_of(words) ==
  IF total_words_of(words) > 0
  THEN TrueDiv(SumLen(words), total_words_of(words))
  ELSE Frac(0, 1)

\* avg_sentence_length_of without its guard
avg_sentence_length_unguarded(words, sentences) ==
  TrueDiv(Len(words), Len(sentences))

\* avg_sentence_length = total_words / total_sentences
\*                       if total_sentences > 0 else 0
avg_sentence_length_of(words, sentences) ==
  IF Len(sentences) > 0
  THEN TrueDiv(total_words_of(words), Len(sentences))
  ELSE Frac(0, 1)

\* The values of the function before rounding (its local variables).
style_locals(text, words) ==
  [ total_words |-> total_words_of(words),
    total_sentences |-> Len(get_sentences(text)),
    unique_words |-> unique_words_of(words),
    vocab_richness |-> vocab_richness_of(words),
    avg_word_length |-> avg_word_length_of(words),
    avg_sentence_length |-> avg_sentence_length_of(words, get_sentences(text)) ]

RatioDigits == 4
LengthDigits == 2

\* The returned dict, or the exception the function raises.  The three
\* textstat readability values are results of that library on the text and
\* are left out.
calculate_style_metrics(text, words, words_no_stop) ==
  LET v == style_locals(text, words)
  IN IF ZeroDivisionError \in
          {v.vocab_richness, v.avg_word_length, v.avg_sentence_length}
     THEN ZeroDivisionError
     ELSE [ total_words |-> v.total_words,
            total_sentences |-> v.total_sentences,
            unique_words |-> v.unique_words,
            vocabulary_richness |-> Round(v.vocab_richness, RatioDigits),
            avg_word_length |-> Round(v.avg_word_length, LengthDigits),
            avg_sentence_length |-> Round(v.avg_sentence_length, LengthDigits) ]

----------------------------------------------------------------------------
(* analyze_text *)

TitlePrefix == <<"T","i","t","l","e",":">>
AuthorPrefix == <<"A","u","t","h","o","r",":">>
Unknown == <<"U","n","k","n","o","w","n">>

\* lines[:30]
HeaderLines == 30

Take(s, n) == SubSeq(s, 1, Min(n, Len(s)))

\* one iteration of the loop over lines[:30]; meta is <<title, author>>
ScanLine(meta, line) ==
  IF StartsWith(LineChars(line), TitlePrefix)
  THEN <<Strip(Remove(LineChars(line), TitlePrefix)), meta[2]>>
  ELSE IF StartsWith(LineChars(line), AuthorPrefix)
       THEN <<meta[1], Strip(Remove(LineChars(line), AuthorPrefix))>>
       ELSE meta

RECURSIVE ScanLines(_, _)
ScanLines(meta, lines) ==
  IF lines = <<>> THEN meta ELSE ScanLines(ScanLine(meta, Head(lines)), Tail(lines))

\* <<title, author>> of a raw text
extract_title_author(raw_text) ==
  ScanLines(<<Unknown, Unknown>>, Take(SplitLines(raw_text), HeaderLines))

TopWordsCount == 200

\* The record analyze_text returns for a file (name and content), the read
\* having succeeded.  The sentiment scores are results of the VADER library
\* on the clean text and are left out.
analyze_text(file) ==
  LET raw_text == file.content
      clean_text == preprocess_text(raw_text)
      meta == extract_title_author(raw_text)
      words_all == get_words(clean_text, FALSE)
      words_no_stop == get_words(clean_text, TRUE)
      bow == build_bag_of_words(words_no_stop)
  IN [ filename |-> file.name,
       title |-> meta[1],
       author |-> meta[2],
       bag_of_words |-> bow,
       top_200_words |-> get_top_words(bow, TopWordsCount),
       style_metrics |-> calculate_style_metrics(clean_text, words_all, words_no_stop),
       all_words |-> words_no_stop ]

----------------------------------------------------------------------------
(* compare_texts *)

Delim == <<"_","_","v","s","_","_">>

\* f"{text1_name}__vs__{text2_name}"
PairKey(text1_name, text2_name) == text1_name \o Delim \o text2_name

\* sorted(list(S)) for a set of strings
RECURSIVE Sorted(_)
Sorted(S) ==
  IF S = {} THEN <<>>
  ELSE LET least == CHOOSE x \in S : \A y \in S \ {x} : StrLess(x, y)
       IN <<least>> \o Sorted(S \ {least})

\* sorted(list(overlap))[:100]
OverlapSample == 100

\* ComparisonRecord with the counts taken from the truncated sample
ComparisonRecordCapped(analysis1, analysis2) ==
  LET words1 == Range(analysis1.all_words)
      words2 == Range(analysis2.all_words)
      overlap == Take(Sorted(words1 \cap words2), OverlapSample)
  IN [ text1 |-> analysis1.title,
       text2 |-> analysis2.title,
       overlap_count |-> Len(overlap),
       unique_to_text1 |-> Cardinality(words1 \ words2),
       unique_to_text2 |-> Cardinality(words2 \ words1),
       overlap_words |-> overlap ]

\* the record of one pair
ComparisonRecord(analysis1, analysis2) ==
  LET words1 == Range(analysis1.all_words)
      words2 == Range(analysis2.all_words)
      overlap == words1 \cap words2
  IN [ text1 |-> analysis1.title,
       text2 |-> analysis2.title,
       overlap_count |-> Cardinality(overlap),
       unique_to_text1 |-> Cardinality(words1 \ words2),
       unique_to_text2 |-> Cardinality(words2 \ words1),
       overlap_words |-> Take(Sorted(overlap), OverlapSample) ]

\* comparisons[key] = value; comparisons is a function from keys to records
DictSet(d, key, value) ==
  [k \in DOMAIN d \cup {key} |-> IF k = key THEN value ELSE d[k]]

\* PairSelected with the pair of a text and itself let in
PairSelectedWithSelf(i, j) == i <= j

\* PairSelected with both directions of a pair let in
PairSelectedBothWays(i, j) == i # j

\* "if i < j": whether the body of the inner loop runs for the pair
PairSelected(i, j) == i < j

\* the body of the inner loop for (i, j), indices from 1
CompareStep(cmp, list, i, j) ==
  IF PairSelected(i, j)
  THEN DictSet(cmp, PairKey(list[i].title, list[j].title),
               ComparisonRecord(list[i], list[j]))
  ELSE cmp

\* the two nested loops from (i, j) on
RECURSIVE CompareFrom(_, _, _, _)
CompareFrom(cmp, list, i, j) ==
  IF i > Len(list) THEN cmp
  ELSE IF j > Len(list) THEN CompareFrom(cmp, list, i + 1, 1)
  ELSE CompareFrom(CompareStep(cmp, list, i, j), list, i, j + 1)

compare_texts(list) == CompareFrom(<<>>, list, 1, 1)

----------------------------------------------------------------------------
(* The corpus: the files main() can find *)

MaxFiles == 3

TitleA == <<"A">>
TitleB == <<"B">>
TitleAvsA == TitleA \o Delim \o TitleA

\* the first lines of a file that names its title and author
Header(title) == <<TitlePrefix, title, NL, AuthorPrefix, <<"X">>, NL>>

BodyCat == << <<"T","h","e">>, <<"c","a","t">>, <<"s","a","t",".">> >>
BodyDog == << <<"T","h","e">>, <<"d","o","g">>, <<"s","a","t",".">> >>

\* a Project Gutenberg file: header, START marker, body, END marker, licence
Doc(header, body) ==
  header \o <<Stars, StartThis, Stars, NL>> \o body
         \o <<NL, Stars, EndThe, Stars, NL, <<"L","i","c","e","n","s","e">> >>

Docs ==
  { Doc(<<>>, BodyCat), Doc(Header(TitleA), BodyCat), Doc(Header(TitleB), BodyDog),
    Doc(Header(TitleAvsA), BodyDog), Doc(Header(TitleA), <<>>) }

Corpora == UNION { [1..n -> Docs] : n \in 0..MaxFiles }

\* analysis_data.json before the run: absent, or the report of an earlier run
OutputStates == { [state |-> "absent", written |-> 0], [state |-> "previous", written |-> 0] }

----------------------------------------------------------------------------
(* main *)

\* the sections json.dump writes, in order
ReportSections == <<"texts", "comparisons", "metadata">>

HasAllWords(analysis) == "all_words" \in DOMAIN analysis

\* DelAllWords that deletes nothing
DelNothing(analysis) == analysis

\* del analysis['all_words']
DelAllWords(analysis) == [k \in DOMAIN analysis \ {"all_words"} |-> analysis[k]]

\* NoTextFiles with the check left out
NoTextFilesUnchecked(files) == FALSE

\* "if not text_files"
NoTextFiles(files) == files = <<>>

Init ==
  /\ pc = "start"
  /\ fs_inputs \in Corpora
  /\ fs_output \in OutputStates
  /\ fs_output0 = fs_output
  /\ text_files = <<>>
  /\ analyses = <<>>
  /\ comparisons = <<>>
  /\ cmp_i = 0
  /\ cmp_j = 0
  /\ del_i = 0
  /\ output_data = None
  /\ fin = None
  /\ fout = None

\* text_files = sorted(Path('.').glob('pg*.txt')); the check for no files
main_discover ==
  /\ pc = "start"
  /\ text_files' = [k \in DOMAIN fs_inputs |-> k]
  /\ pc' = IF NoTextFiles(text_files') THEN "no_input" ELSE "analyze"
  /\ UNCHANGED <<fs_inputs, fs_output, fs_output0, analyses, comparisons,
                 cmp_i, cmp_j, del_i, output_data, fin, fout>>

\* one iteration of "for filepath in text_files", the file read
main_analyze ==
  /\ pc = "analyze"
  /\ Len(analyses) < Len(text_files)
  /\ LET filepath == text_files[Len(analyses) + 1]
     IN analyses' = Append(analyses,
                           analyze_text([name |-> filepath, content |-> fs_inputs[filepath]]))
  /\ UNCHANGED <<pc, fs_inputs, fs_output, fs_output0, text_files, comparisons,
                 cmp_i, cmp_j, del_i, output_data, fin, fout>>

\* the same iteration, open() or read() raising (OSError, UnicodeDecodeError):
\* nothing catches it
main_analyze_fail ==
  /\ pc = "analyze"
  /\ Len(analyses) < Len(text_files)
  /\ pc' = "crashed_read"
  /\ UNCHANGED <<fs_inputs, fs_output, fs_output0, text_files, analyses, comparisons,
                 cmp_i, cmp_j, del_i, output_data, fin, fout>>

\* the loop is over: compare_texts(analyses) is called
compare_call ==
  /\ pc = "analyze"
  /\ Len(analyses) = Len(text_files)
  /\ pc' = "comparing"
  /\ comparisons' = <<>>
  /\ cmp_i' = 1
  /\ cmp_j' = 1
  /\ UNCHANGED <<fs_inputs, fs_output, fs_output0, text_files, analyses,
                 del_i, output_data, fin, fout>>

\* one iteration of the inner loop of compare_texts
compare_step ==
  /\ pc = "comparing"
  /\ cmp_i <= Len(analyses)
  /\ comparisons' = CompareStep(comparisons, analyses, cmp_i, cmp_j)
  /\ IF cmp_j < Len(analyses)
     THEN cmp_j' = cmp_j + 1 /\ cmp_i' = cmp_i
     ELSE cmp_j' = 1 /\ cmp_i' = cmp_i + 1
  /\ UNCHANGED <<pc, fs_inputs, fs_output, fs_output0, text_files, analyses,
                 del_i, output_data, fin, fout>>

\* compare_texts returns
compare_return ==
  /\ pc = "comparing"
  /\ cmp_i > Len(analyses)
  /\ pc' = "strip"
  /\ del_i' = 1
  /\ UNCHANGED <<fs_inputs, fs_output, fs_output0, text_files, analyses, comparisons,
                 cmp_i, cmp_j, output_data, fin, fout>>

\* one iteration of "for analysis in analyses: del analysis['all_words']"
main_del ==
  /\ pc = "strip"
  /\ del_i <= Len(analyses)
  /\ analyses' = [analyses EXCEPT ![del_i] = DelAllWords(analyses[del_i])]
  /\ del_i' = del_i + 1
  /\ UNCHANGED <<pc, fs_inputs, fs_output, fs_output0, text_files, comparisons,
                 cmp_i, cmp_j, output_data, fin, fout>>

\* output_data = {...}
main_build ==
  /\ pc = "strip"
  /\ del_i > Len(analyses)
  /\ output_data' = [ texts |-> analyses,
                      comparisons |-> comparisons,
                      metadata |-> [ total_texts |-> Len(analyses),
                                     stopwords_removed |-> TRUE,
                                     top_words_count |-> TopWordsCount ] ]
  /\ pc' = "open"
  /\ UNCHANGED <<fs_inputs, fs_output, fs_output0, text_files, analyses, comparisons,
                 cmp_i, cmp_j, del_i, fin, fout>>

\* open(output_file, 'w'): the file is created or truncated
main_open ==
  /\ pc = "open"
  /\ fs_output' = [state |-> "new", written |-> 0]
  /\ pc' = "dump"
  /\ UNCHANGED <<fs_inputs, fs_output0, text_files, analyses, comparisons,
                 cmp_i, cmp_j, del_i, output_data, fin, fout>>

\* open raising (a directory that cannot be written): the file is untouched
main_open_fail ==
  /\ pc = "open"
  /\ pc' = "crashed_open"
  /\ UNCHANGED <<fs_inputs, fs_output, fs_output0, text_files, analyses, comparisons,
                 cmp_i, cmp_j, del_i, output_data, fin, fout>>

\* json.dump writes the next section into the open file
main_dump ==
  /\ pc = "dump"
  /\ fs_output.written < Len(ReportSections)
  /\ fs_output' = [fs_output EXCEPT !.written = @ + 1]
  /\ UNCHANGED <<pc, fs_inputs, fs_output0, text_files, analyses, comparisons,
                 cmp_i, cmp_j, del_i, output_data, fin, fout>>

\* a write raising (a full disk): what was written stays in the file
main_dump_fail ==
  /\ pc = "dump"
  /\ fs_output.written < Len(ReportSections)
  /\ pc' = "crashed_write"
  /\ UNCHANGED <<fs_inputs, fs_output, fs_output0, text_files, analyses, comparisons,
                 cmp_i, cmp_j, del_i, output_data, fin, fout>>

\* the file is closed and the summary printed
main_finish ==
  /\ pc = "dump"
  /\ fs_output.written = Len(ReportSections)
  /\ pc' = "done"
  /\ UNCHANGED <<fs_inputs, fs_output, fs_output0, text_files, analyses, comparisons,
                 cmp_i, cmp_j, del_i, output_data, fin, fout>>

Next ==
  \/ main_discover
  \/ main_analyze
  \/ main_analyze_fail
  \/ compare_call
  \/ compare_step
  \/ compare_return
  \/ main_del
  \/ main_build
  \/ main_open
  \/ main_open_fail
  \/ main_dump
  \/ main_dump_fail
  \/ main_finish

Spec == Init /\ [][Next]_vars

----------------------------------------------------------------------------
(* The methods on their own: each specification below draws the arguments  *)
(* of one method from a bounded set and calls it once.                     *)

\* main() is not running
MainIdle ==
  /\ fs_inputs = <<>>
  /\ fs_output = [state |-> "absent", written |-> 0]
  /\ fs_output0 = fs_output
  /\ text_files = <<>>
  /\ analyses = <<>>
  /\ comparisons = <<>>
  /\ cmp_i = 0
  /\ cmp_j = 0
  /\ del_i = 0
  /\ output_data = None

\* every sequence of at most n elements of S
SeqsUpTo(S, n) == UNION { [1..k -> S] : k \in 0..n }

RECURSIVE Flatten(_)
Flatten(ss) == IF ss = <<>> THEN <<>> ELSE Head(ss) \o Flatten(Tail(ss))

Body == <<"B","O","D","Y">>

(* strip_gutenberg_metadata *)

MaxSegments == 4

\* the pieces a text is put together from: single chunks, and whole markers
Segments ==
  { <<Body>>, <<NL>>, <<Stars>>, <<StartThis>>, <<EndThis>>,
    <<Stars, StartThis, Stars>>, <<Stars, NL, StartThe, Body, Stars>>,
    <<Stars, EndThis, Stars>>, <<Stars, NL, EndThe, Body, Stars>> }

StripInputs == { Flatten(ss) : ss \in SeqsUpTo(Segments, MaxSegments) }

InitStrip ==
  /\ pc = "strip_call"
  /\ fin \in StripInputs
  /\ fout = None
  /\ MainIdle

strip_apply ==
  /\ pc = "strip_call"
  /\ fout' = strip_gutenberg_metadata(fin)
  /\ pc' = "strip_return"
  /\ UNCHANGED <<fin, mainVars>>

NextStrip == strip_apply

SpecStrip == InitStrip /\ [][NextStrip]_vars

(* the title and author of analyze_text *)

MaxLines == 3
PadSlack == 2

TitleLines ==
  { <<TitlePrefix, TitleA>>, <<TitlePrefix, TitleB>>, <<AuthorPrefix, <<"X">> >>,
    <<AuthorPrefix, <<"Y">> >>, <<Body>>, <<>> }

\* the lines of a text joined by line breaks
RECURSIVE JoinLines(_)
JoinLines(lines) ==
  IF lines = <<>> THEN <<>>
  ELSE IF Len(lines) = 1 THEN lines[1]
  ELSE lines[1] \o <<NL>> \o JoinLines(Tail(lines))

\* texts of at least one line: some empty lines, then at most MaxLines lines;
\* the empty lines are none, or so many that the others are around line 30
TitleInputs ==
  { JoinLines([k \in 1..pad |-> <<>>] \o lines) :
      pad \in {0} \cup ((HeaderLines - PadSlack)..HeaderLines),
      lines \in SeqsUpTo(TitleLines, MaxLines) \ {<<>>} }

InitTitle ==
  /\ pc = "title_call"
  /\ fin \in TitleInputs
  /\ fout = None
  /\ MainIdle

title_apply ==
  /\ pc = "title_call"
  /\ fout' = extract_title_author(fin)
  /\ pc' = "title_return"
  /\ UNCHANGED <<fin, mainVars>>

NextTitle == title_apply

SpecTitle == InitTitle /\ [][NextTitle]_vars

(* build_bag_of_words and get_top_words *)

MaxTopWords == 5
MaxTopN == 4

Cat == <<"c","a","t">>
Dog == <<"d","o","g">>
Sat == <<"s","a","t">>

InitTop ==
  /\ pc = "top_call"
  /\ fin \in [ bow : { build_bag_of_words(ws) : ws \in SeqsUpTo({Cat, Dog, Sat}, MaxTopWords) },
               n : 0..MaxTopN ]
  /\ fout = None
  /\ MainIdle

top_apply ==
  /\ pc = "top_call"
  /\ fout' = get_top_words(fin.bow, fin.n)
  /\ pc' = "top_return"
  /\ UNCHANGED <<fin, mainVars>>

NextTop == top_apply

SpecTop == InitTop /\ [][NextTop]_vars

(* calculate_style_metrics *)

MaxChunks == 3

StyleChunks ==
  { <<"T","h","e">>, Cat, <<"s","a","t",".">>, <<"4","2">>, <<"G","o","!">> }

InitStyle ==
  /\ pc = "style_call"
  /\ fin \in SeqsUpTo(StyleChunks, MaxChunks)
  /\ fout = None
  /\ MainIdle

\* the call of analyze_text: the words are those of the clean text
style_apply ==
  /\ pc = "style_call"
  /\ fout' = [ ret |-> calculate_style_metrics(fin, get_words(fin, FALSE), get_words(fin, TRUE)),
               locals |-> style_locals(fin, get_words(fin, FALSE)) ]
  /\ pc' = "style_return"
  /\ UNCHANGED <<fin, mainVars>>

NextStyle == style_apply

SpecStyle == InitStyle /\ [][NextStyle]_vars

(* compare_texts on two texts *)

MaxCmpWords == 2
BigSlack == 1

\* the k-th word of an unbounded vocabulary over the letters a, b, c:
\* a, b, c, aa, ab, ...
RECURSIVE NthWord(_)
NthWord(k) ==
  IF k = 0 THEN <<>>
  ELSE NthWord((k - 1) \div 3) \o <<LowerCase[((k - 1) % 3) + 1]>>

WordsFromTo(lo, hi) == [k \in 1..(hi - lo + 1) |-> NthWord(lo + k - 1)]

\* word lists around the size of the overlap sample
BigLists ==
  { WordsFromTo(lo, OverlapSample + d) : lo \in 1..2, d \in BigSlack..(BigSlack + 1) }

CmpWordLists == SeqsUpTo({Cat, Dog, Sat}, MaxCmpWords) \cup BigLists

InitCompare ==
  /\ pc = "compare_call"
  /\ fin \in CmpWordLists \X CmpWordLists
  /\ fout = None
  /\ MainIdle

compare_apply ==
  /\ pc = "compare_call"
  /\ fout' = compare_texts(<< [title |-> TitleA, all_words |-> fin[1]],
                              [title |-> TitleB, all_words |-> fin[2]] >>)
  /\ pc' = "compare_return"
  /\ UNCHANGED <<fin, mainVars>>

NextCompare == compare_apply

SpecCompare == InitCompare /\ [][NextCompare]_vars

----------------------------------------------------------------------------
(* Properties *)

\* compare_texts has returned
Returned == pc \in {"strip", "open", "dump", "done", "crashed_open", "crashed_write"}

\* output_data exists
ReportBuilt == pc \in {"open", "dump", "done", "crashed_open", "crashed_write"}

Positions == DOMAIN analyses

TitleOf(k) == analyses[k].title

ForwardPairs == { p \in Positions \X Positions : p[1] < p[2] }

OrderedPairs == { p \in Positions \X Positions : p[1] # p[2] }

KeyOf(p) == PairKey(TitleOf(p[1]), TitleOf(p[2]))

\* n*(n-1)/2
PairsOf(n) == (n * (n - 1)) \div 2

\* no two of the given pairs of texts have the same key
DistinctKeys(pairs) == \A p, q \in pairs : p # q => KeyOf(p) # KeyOf(q)

\* the titles differ from each other and hold no underscore
PlainTitles ==
  /\ \A i, j \in Positions : i # j => TitleOf(i) # TitleOf(j)
  /\ \A i \in Positions : "_" \notin Range(TitleOf(i))

\* C1 as claimed: for a corpus of n analysed texts, whatever the titles, the
\* mapping compare_texts returns has exactly n*(n-1)/2 entries.
C1_PairCount ==
  Returned => Cardinality(DOMAIN comparisons) = PairsOf(Len(analyses))

\* C1 amended: the mapping has one entry per distinct key title_i__vs__title_j
\* of the pairs i < j, so at most n*(n-1)/2 entries, and exactly n*(n-1)/2 when
\* these keys differ from each other (as they do when the titles differ and
\* hold no underscore).
C1_PairCountOfDistinctKeys ==
  Returned =>
    /\ DOMAIN comparisons = { KeyOf(p) : p \in ForwardPairs }
    /\ Cardinality(DOMAIN comparisons) <= PairsOf(Len(analyses))
    /\ DistinctKeys(ForwardPairs) =>
         Cardinality(DOMAIN comparisons) = PairsOf(Len(analyses))
    /\ PlainTitles => Cardinality(DOMAIN comparisons) = PairsOf(Len(analyses))

C1_Witness ==
  /\ pc = "strip"
  /\ Len(analyses) = 3
  /\ PlainTitles
  /\ Cardinality(DOMAIN comparisons) = 3

\* the mapping holds the keys of both directions of some two texts
BothDirections ==
  \E p \in OrderedPairs :
     /\ KeyOf(p) \in DOMAIN comparisons
     /\ KeyOf(<<p[2], p[1]>>) \in DOMAIN comparisons

\* C3 as claimed: for any two texts with titles A and B, the mapping never
\* holds both the key A__vs__B and the key B__vs__A.
C3_NeverBothDirections == Returned => ~BothDirections

\* C3 amended: when the keys of all ordered pairs of distinct texts differ
\* from each other (as they do when the titles differ and hold no underscore),
\* the mapping never holds both A__vs__B and B__vs__A: only the direction of
\* the corpus order is stored.
C3_NeverBothDirectionsOfDistinctKeys ==
  Returned =>
    /\ DistinctKeys(OrderedPairs) => ~BothDirections
    /\ PlainTitles => ~BothDirections
    /\ DistinctKeys(OrderedPairs) =>
         \A p \in ForwardPairs : KeyOf(p) \in DOMAIN comparisons

C3_Witness ==
  /\ pc = "strip"
  /\ Len(analyses) = 3
  /\ DistinctKeys(OrderedPairs)
  /\ KeyOf(<<1, 3>>) \in DOMAIN comparisons
  /\ KeyOf(<<3, 1>>) \notin DOMAIN comparisons

\* C2 as claimed: a record holds all_words only while compare_texts runs, and
\* no record of the texts of the report holds it.
C2_AllWordsOnlyWhileComparing ==
  /\ \A k \in Positions : HasAllWords(analyses[k]) => pc = "comparing"
  /\ ReportBuilt => \A k \in DOMAIN output_data.texts : ~HasAllWords(output_data.texts[k])

\* C2 amended: every record holds all_words from the moment analyze_text
\* returns it, through the loop over the files and through compare_texts,
\* until the loop after compare_texts deletes it, record by record; no record
\* of the texts of the report handed to json.dump holds it.
C2_AllWordsUntilDeleted ==
  /\ pc \in {"analyze", "comparing", "crashed_read"} =>
       \A k \in Positions : HasAllWords(analyses[k])
  /\ pc = "strip" => \A k \in Positions : HasAllWords(analyses[k]) <=> k >= del_i
  /\ ReportBuilt =>
       /\ Len(output_data.texts) = Len(text_files)
       /\ \A k \in DOMAIN output_data.texts : ~HasAllWords(output_data.texts[k])

C2_Witness ==
  /\ pc = "dump"
  /\ Len(output_data.texts) = 2
  /\ DOMAIN output_data.comparisons # {}

\* the report file is whole: the one of before the run, or a new one with
\* every section written
ReportFileWhole ==
  \/ fs_output = fs_output0
  \/ fs_output.state = "new" /\ fs_output.written = Len(ReportSections)

\* C8: after a run that an I/O failure ended, the report file is absent, still
\* the whole previous report, or a whole new report, never half-written.
C8_NoHalfWrittenReport ==
  pc \in {"crashed_read", "crashed_open", "crashed_write"} => ReportFileWhole

\* C9: when no input file is found, main halts without analysing, comparing
\* or touching the report file, which stays as it was before the run.
C9_NoInputNoReport ==
  (pc # "start" /\ fs_inputs = <<>>) =>
    /\ pc = "no_input"
    /\ fs_output = fs_output0
    /\ analyses = <<>>
    /\ comparisons = <<>>
    /\ output_data = None

C9_Witness == pc = "no_input" /\ fs_output0.state = "previous"

\* the first 30 lines of the text under test
ScannedLines == Take(SplitLines(fin), HeaderLines)

\* the content of the first scanned line that starts with the prefix, or
\* "Unknown"
FirstContent(prefix) ==
  IF \E k \in DOMAIN ScannedLines : StartsWith(LineChars(ScannedLines[k]), prefix)
  THEN LET k == CHOOSE k \in DOMAIN ScannedLines :
                  /\ StartsWith(LineChars(ScannedLines[k]), prefix)
                  /\ \A m \in 1..(k - 1) : ~StartsWith(LineChars(ScannedLines[m]), prefix)
       IN Strip(Remove(LineChars(ScannedLines[k]), prefix))
  ELSE Unknown

\* C4: the title (the author) is the content of the first of the first 30
\* lines that starts with "Title:" ("Author:"); later such lines change
\* nothing, lines after the 30th are ignored, and without such a line it is
\* "Unknown".
C4_FirstMatchWins ==
  pc = "title_return" => fout = <<FirstContent(TitlePrefix), FirstContent(AuthorPrefix)>>

\* the content of the last scanned line that starts with the prefix, or
\* "Unknown"
LastContent(prefix) ==
  IF \E k \in DOMAIN ScannedLines : StartsWith(LineChars(ScannedLines[k]), prefix)
  THEN LET k == CHOOSE k \in DOMAIN ScannedLines :
                  /\ StartsWith(LineChars(ScannedLines[k]), prefix)
                  /\ \A m \in (k + 1)..Len(ScannedLines) :
                       ~StartsWith(LineChars(ScannedLines[m]), prefix)
       IN Strip(Remove(LineChars(ScannedLines[k]), prefix))
  ELSE Unknown

\* What the loop does instead: the last matching line of the first 30 wins.
LastMatchWins ==
  pc = "title_return" => fout = <<LastContent(TitlePrefix), LastContent(AuthorPrefix)>>

\* the place of a word in a frequency table
PlaceIn(d, w) == CHOOSE k \in DOMAIN d : d[k][1] = w

\* C5: get_top_words(table, n) returns min(n, len(table)) entries of the
\* table, each word once and with its count, in non-increasing order of count,
\* entries of equal count in the order of the table, and no entry left out has
\* a higher count than one that is in.
C5_TopWords ==
  pc = "top_return" =>
    /\ Len(fout) = Min(fin.n, Len(fin.bow))
    /\ \A k \in DOMAIN fout : fout[k] \in Range(fin.bow)
    /\ \A k, m \in DOMAIN fout : k # m => fout[k][1] # fout[m][1]
    /\ \A k, m \in DOMAIN fout : k < m => fout[k][2] >= fout[m][2]
    /\ \A k, m \in DOMAIN fout :
         (k < m /\ fout[k][2] = fout[m][2]) =>
           PlaceIn(fin.bow, fout[k][1]) < PlaceIn(fin.bow, fout[m][1])
    /\ \A e \in Range(fin.bow) \ Range(fout) : \A k \in DOMAIN fout : e[2] <= fout[k][2]

\* a table of three words, the last two of equal count and more frequent
\* than the first, of which two are asked for
C5_Witness ==
  /\ pc = "top_return"
  /\ Len(fin.bow) = 3
  /\ fin.n = 2
  /\ fin.bow[1][2] < fin.bow[2][2]
  /\ fin.bow[2][2] = fin.bow[3][2]
  /\ fout = <<fin.bow[2], fin.bow[3]>>

\* the record of the two texts under test
CmpRecord == fout[PairKey(TitleA, TitleB)]

CmpOverlap == Range(fin[1]) \cap Range(fin[2])

\* C6: in the record of a pair, overlap_count, unique_to_text1 and
\* unique_to_text2 are the sizes of the intersection and of the two
\* differences of the word sets, never capped, and overlap_words is the first
\* min(100, overlap_count) words of the intersection in ascending order,
\* without duplicates.
C6_ComparisonRecord ==
  pc = "compare_return" =>
    /\ DOMAIN fout = {PairKey(TitleA, TitleB)}
    /\ CmpRecord.overlap_count = Cardinality(CmpOverlap)
    /\ CmpRecord.unique_to_text1 = Cardinality(Range(fin[1]) \ Range(fin[2]))
    /\ CmpRecord.unique_to_text2 = Cardinality(Range(fin[2]) \ Range(fin[1]))
    /\ Len(CmpRecord.overlap_words) = Min(OverlapSample, Cardinality(CmpOverlap))
    /\ Range(CmpRecord.overlap_words) \subseteq CmpOverlap
    /\ \A k \in 1..(Len(CmpRecord.overlap_words) - 1) :
         StrLess(CmpRecord.overlap_words[k], CmpRecord.overlap_words[k + 1])
    /\ \A w \in CmpOverlap \ Range(CmpRecord.overlap_words) :
         \A k \in DOMAIN CmpRecord.overlap_words : StrLess(CmpRecord.overlap_words[k], w)

\* an overlap larger than the sample
C6_Witness ==
  /\ pc = "compare_return"
  /\ CmpRecord.overlap_count > OverlapSample
  /\ Len(CmpRecord.overlap_words) = OverlapSample
  /\ CmpRecord.unique_to_text2 > 0

StartPhrases == {StartThis, StartThe}
EndPhrases == {EndThis, EndThe}

\* the first START marker and the first END marker of the text under test
StartInInput == SearchPatterns(fin, StartPhrases, StartThis)
EndInInput == SearchPatterns(fin, EndPhrases, EndThis)

\* what follows the first START marker, or the whole text
RestAfterStart ==
  IF StartInInput # NoMatch THEN SubSeq(fin, StartInInput[2] + 1, Len(fin)) ELSE fin

\* the first END marker of what follows the START marker
EndInRest == SearchPatterns(RestAfterStart, EndPhrases, EndThis)

\* a text made of a START marker, a body and an END marker
Enclosed(body) == <<Stars, StartThis, Stars>> \o body \o <<Stars, EndThis, Stars>>

\* C7 as claimed: the two boundaries are found independently of each other in
\* the input: what is kept lies after the first START marker of the input (or
\* from its beginning) and before the first END marker of the input (or up to
\* its end), wherever the START marker is.
C7_IndependentBoundaries ==
  pc = "strip_return" =>
    fout = StripText(SubSeq(fin,
                            IF StartInInput # NoMatch THEN StartInInput[2] + 1 ELSE 1,
                            IF EndInInput # NoMatch THEN EndInInput[1] - 1 ELSE Len(fin)))

\* C7 amended: the END marker is looked for in what is left after the START
\* boundary: everything up to and including the first START marker is
\* discarded; then everything from the first END marker of the remainder on is
\* discarded (an END marker before or inside the START marker is not found); a
\* boundary without a marker removes nothing; the result is stripped of
\* leading and trailing whitespace, so START marker, body, END marker gives the
\* body.
C7_EndSearchedAfterStart ==
  pc = "strip_return" =>
    /\ fout = StripText(IF EndInRest # NoMatch
                        THEN SubSeq(RestAfterStart, 1, EndInRest[1] - 1)
                        ELSE RestAfterStart)
    /\ (StartInInput = NoMatch /\ EndInInput = NoMatch) => fout = StripText(fin)
    /\ \A body \in SeqsUpTo({Body, NL}, MaxSegments) :
         fin = Enclosed(body) => fout = StripText(body)
    /\ fout # <<>> => fout[1] # NL /\ fout[Len(fout)] # NL

\* an END marker before the START marker, and one after it
C7_Witness ==
  /\ pc = "strip_return"
  /\ fin = <<Stars, EndThis, Stars, Stars, StartThis, Stars, Body, Stars, EndThis, Stars>>
  /\ fout = <<Body>>

\* a fraction equals a / b
IsRatio(x, a, b) == x # ZeroDivisionError /\ x.den > 0 /\ x.num * b = a * x.den

\* C10: calculate_style_metrics never divides by zero: without words it
\* returns 0 for total_words, unique_words, vocabulary_richness and
\* avg_word_length, without sentences it returns 0 for avg_sentence_length,
\* and otherwise vocabulary_richness is unique_words / total_words and
\* avg_sentence_length is total_words / total_sentences before rounding, with
\* unique_words <= total_words.
C10_NoDivisionByZero ==
  pc = "style_return" =>
    /\ fout.ret # ZeroDivisionError
    /\ fout.ret.total_words = Len(get_words(fin, FALSE))
    /\ fout.ret.total_sentences = Len(get_sentences(fin))
    /\ fout.ret.unique_words <= fout.ret.total_words
    /\ fout.ret.total_words = 0 =>
         /\ fout.ret.unique_words = 0
         /\ fout.ret.vocabulary_richness.units = 0
         /\ fout.ret.avg_word_length.units = 0
    /\ fout.ret.total_sentences = 0 => fout.ret.avg_sentence_length.units = 0
    /\ fout.ret.total_words > 0 =>
         IsRatio(fout.locals.vocab_richness, fout.ret.unique_words, fout.ret.total_words)
    /\ fout.ret.total_sentences > 0 =>
         IsRatio(fout.locals.avg_sentence_length, fout.ret.total_words,
                 fout.ret.total_sentences)

\* the empty text: no words and no sentences
C10_Witness ==
  /\ pc = "style_return"
  /\ fin = <<>>
  /\ fout.ret.total_words = 0
  /\ fout.ret.total_sentences = 0
  /\ fout.ret.avg_sentence_length.units = 0

====
